---- MODULE Spec2Model ----
(***************************************************************************)
(* A model of HedgedRpcClient (src/src/client.rs): one client, built by    *)
(* HedgedRpcClient::new from an ordered provider list and a HedgeConfig,   *)
(* and the hedged_call raced over it.                                      *)
(*                                                                         *)
(* Three specifications share the steps of the race:                       *)
(*   Spec        one call on a fresh client, over every configuration;     *)
(*   SpecFloor   the same, the configuration carrying HedgeConfig.min_slot;*)
(*   SpecShared  several calls through the handles of one client, their    *)
(*               registry updates interleaved with each other, with        *)
(*               provider_stats() and with Clone.                          *)
(*                                                                         *)
(* SpecPresets, SpecCancel and SpecLive vary the configuration, the caller *)
(* and the scheduling.  The last part models the dashboard built on the    *)
(* client (src/src/main.rs, app.rs, rpc.rs, ui/draw.rs): SpecKeys,         *)
(* SpecBatch, SpecBatchLive and SpecResults.                               *)
(*                                                                         *)
(* Time is discrete.  `elapsed` is start.elapsed() of the call in ticks.   *)
(* The call is one task: everything it does between two suspension points  *)
(* takes no time, so Tick is enabled only when the task is suspended, that *)
(* is when no branch of its select! and no timer of it is ready.           *)
(*                                                                         *)
(* An attempt is the future spawn_provider builds for one position of the  *)
(* provider list.  It is owned by the FuturesUnordered of the call and     *)
(* makes progress only while that collection is alive.                     *)
(*                                                                         *)
(* Left out: a poisoned registry mutex (no code path panics while holding  *)
(* it), overflow of the u64 counters, and the cooperative-budget yields of *)
(* the runtime.                                                            *)
(***************************************************************************)
EXTENDS Integers, Sequences, FiniteSets, Bags, TLC

\* ---------------------------------------------------------------- bounds
MaxProviders == 3   \* longest provider list, largest initial/max_providers
MaxDuration == 2    \* longest hedge_after / overall_timeout, in ticks
MaxSlot == 1        \* largest context.slot a response carries
MaxCalls == 2       \* calls issued on one client
BatchStep == 2      \* the step and the floor of batch_count (10 in app.rs)
BatchSteps == 2     \* the ceiling of batch_count, in steps (1000 / 10 in app.rs)
HistoryCap == 2     \* longest latency history of a provider (100 in app.rs)
TimestampCap == 3   \* longest call_timestamps (1000 in app.rs)
KeysApp == 4        \* key presses read, any key
KeysBatch == 3      \* key presses read, the keys of batch mode
KeysResults == 4    \* key presses read, the keys that ask for a call
KeysLive == 1       \* key presses read, the keys that set a batch up
MaxInFlight == 2    \* tasks of the dashboard running at once
EnvProviders == 2   \* providers the environment configures (up to 3 in env.rs)

VARIABLES
    providers,   \* Seq of ProviderId: self.providers (ids only), in priority order
    cfg,         \* self.cfg: the HedgeConfig
    stats,       \* self.stats: ProviderId -> ProviderStats
    pc,          \* position of the call
    att,         \* position in providers -> state of the attempt for it
    failures,    \* the failures Vec of hedging_logic
    hedged,      \* the hedged flag of hedging_logic
    elapsed,     \* ticks since `start`
    inner,       \* what hedging_logic / time::timeout resolved to
    result,      \* what the call returned to its caller
    calls,       \* calls issued so far
    via,         \* self.stats of the call: the allocation its handle points to
    handles,     \* Seq: handle -> the registry allocation its Arc points to
    heap,        \* registry allocations other than the one `new` made
    locked,      \* the allocations whose Mutex is held
    pool,        \* Bag of calls past their race, at `match timed`, not yet returned
    snap,        \* the last provider_stats() result, until the registry changes
    accounted,   \* ghost: what the calls that have returned owe each provider
    app,         \* the dashboard's App
    rx,          \* the channel of run_app: RpcFinished events sent, not yet received
    tasks,       \* Bag of the tasks spawn_rpc_call spawned that have not finished
    at,          \* position of run_app in its loop
    gauge,       \* the percentage the last frame handed to the Gauge, <<>> if none
    keys,        \* key presses still to come
    hands_off,   \* ghost: the last key read switched batch mode on
    batch_spawned \* ghost: calls the batch loop spawned since batch mode went on

\* What only SpecShared changes.
shared == <<handles, heap, locked, pool, snap, accounted>>

\* What the dashboard specifications leave alone.
library == <<providers, cfg, stats, pc, att, failures, hedged, elapsed, inner, result,
             calls, via, handles, heap, locked, pool, snap, accounted>>

\* What only the dashboard specifications change.
dash == <<app, rx, tasks, at, gauge, keys, hands_off, batch_spawned>>

vars == <<providers, cfg, stats, pc, att, failures, hedged, elapsed, inner, result,
          calls, via, handles, heap, locked, pool, snap, accounted,
          app, rx, tasks, at, gauge, keys, hands_off, batch_spawned>>

\* ------------------------------------------------------------ data model
Min(a, b) == IF a <= b THEN a ELSE b
Max(a, b) == IF a >= b THEN a ELSE b

RECURSIVE SeqMax(_)
SeqMax(s) == IF s = <<>> THEN 0 ELSE Max(s[Len(s)], SeqMax(SubSeq(s, 1, Len(s) - 1)))

\* ProviderId is any label; two configured providers may carry the same one.
\* Lists are enumerated up to renaming of the labels: the first label is 1 and
\* each later label is an old one or the next new one.
ProviderLists ==
    UNION { { s \in [1..n -> 1..MaxProviders] :
                \A i \in 1..n : s[i] <= SeqMax(SubSeq(s, 1, i - 1)) + 1 } : n \in 0..MaxProviders }

\* min_slot is a field of the struct that no line of client.rs reads; it is
\* left out here and carried by HedgeConfigWithMinSlot.
HedgeConfig ==
    [ initial_providers : 0..MaxProviders,
      hedge_after       : 0..MaxDuration,
      max_providers     : 0..MaxProviders,
      overall_timeout   : 0..MaxDuration ]

ProviderStats == [wins |-> 0, total_latency_ms |-> 0, errors |-> 0]

\* HedgedRpcClient::new: one registry entry per configured id.
New(provider_cfgs, c) ==
    /\ providers = provider_cfgs
    /\ cfg = c
    /\ stats = [id \in { provider_cfgs[i] : i \in 1..Len(provider_cfgs) } |-> ProviderStats]

NoResult == [kind |-> "None"]

\* context.slot of a response.  Only the response next() yields is ever read,
\* so its slot is drawn when it is yielded.
Slots == 0..MaxSlot

\* The value of type T an attempt resolves to: the response of attempt `by`.
Value(i, slot) == [by |-> i, slot |-> slot]

\* The struct with its min_slot: Option<u64>, None as <<>> and Some(s) as <<s>>.
HedgeConfigWithMinSlot ==
    [ initial_providers : 0..MaxProviders,
      hedge_after       : 0..MaxDuration,
      max_providers     : 0..MaxProviders,
      overall_timeout   : 0..MaxDuration,
      min_slot          : {<<>>} \cup { <<s>> : s \in Slots } ]

NoSnapshot == [kind |-> "None"]

\* No dashboard runs: the library is used on its own.
NoDashboard ==
    /\ app = <<>>
    /\ rx = <<>>
    /\ tasks = EmptyBag
    /\ at = "none"
    /\ gauge = <<>>
    /\ keys = 0
    /\ hands_off = FALSE
    /\ batch_spawned = 0

\* A client nobody has called yet: one handle, the one `new` returned, its Arc
\* pointing to the registry `new` allocated.
NoCall ==
    /\ pc = "Idle"
    /\ att = [i \in 1..Len(providers) |-> "idle"]
    /\ failures = <<>>
    /\ hedged = FALSE
    /\ elapsed = 0
    /\ inner = NoResult
    /\ result = NoResult
    /\ calls = 0
    /\ handles = <<1>>
    /\ via = handles[1]
    /\ heap = <<>>
    /\ locked = {}
    /\ pool = EmptyBag
    /\ snap = NoSnapshot
    /\ accounted = [id \in { providers[i] : i \in 1..Len(providers) } |->
                        [wins |-> 0, total_latency_ms |-> 0, errors |-> 0]]

NoCallYet == NoCall /\ NoDashboard

Init ==
    /\ \E p \in ProviderLists, c \in HedgeConfig : New(p, c)
    /\ NoCallYet

\* --------------------------------------------------- hedged_call: policy
\* max_idx = self.cfg.max_providers.min(self.providers.len())
max_idx == Min(cfg.max_providers, Len(providers))

\* selected_providers = &self.providers[..max_idx], as positions
selected_providers == 1..max_idx

\* Mutant: only the providers already launched are enumerated on timeout.
launched_ids ==
    [i \in 1..(IF hedged THEN Min(cfg.max_providers, Len(providers))
                         ELSE Min(Max(cfg.initial_providers, 1),
                                  Min(cfg.max_providers, Len(providers)))) |-> providers[i]]

\* Mutant: the ids of every configured provider are enumerated on timeout.
configured_ids == providers

\* selected_ids: the ids of selected_providers, in order
selected_ids == [i \in selected_providers |-> providers[i]]

\* Mutant: initial_providers is not raised to 1.
initial_count_unclamped == Min(cfg.initial_providers, max_idx)

\* initial_count = initial_providers.max(1).min(selected_providers.len())
initial_count == Min(Max(cfg.initial_providers, 1), max_idx)

\* Mutant: the hedge timer is waited for even when the reserve is empty.
needs_hedging_always == TRUE

\* needs_hedging = initial_count < selected_providers.len()
needs_hedging == initial_count < max_idx

\* Mutant: the guard forgets max_providers == 0.
NoProvidersGuardEmptyOnly == Len(providers) = 0

\* self.providers.is_empty(), then max_idx == 0: Err(NoProviders)
NoProvidersGuard == Len(providers) = 0 \/ max_idx = 0

\* Mutant: the hedge launches every remaining provider, beyond the prefix too.
reserve_to_end == (initial_count + 1)..Len(providers)

\* &selected_providers[..initial_count] and &selected_providers[initial_count..]
initial_wave == 1..initial_count
reserve == (initial_count + 1)..max_idx

\* The attempts the FuturesUnordered holds: pushed, not yet yielded by next().
futures == { i \in DOMAIN att : att[i] \in {"flying", "ok", "err"} }

\* Attempts whose future is ready: next() yields one of them.
ready == { i \in DOMAIN att : att[i] \in {"ok", "err"} }

\* futures.push(spawn_provider(..)) for every position of `wave`: f(client) is
\* called, the provider is contacted.
Launch(a, wave) == [i \in DOMAIN a |-> IF i \in wave THEN "flying" ELSE a[i]]

\* Mutant: the attempts are detached tasks that outlive the collection.
DropNothing(a) == a

\* Dropping the FuturesUnordered drops every attempt still in it: one still
\* pending is "dropped", one that was ready and never yielded is "lost_ok" or
\* "lost_err".  None of them is polled again.
DropFutures(a) ==
    [i \in DOMAIN a |-> CASE a[i] = "flying" -> "dropped"
                          [] a[i] = "ok"     -> "lost_ok"
                          [] a[i] = "err"    -> "lost_err"
                          [] OTHER           -> a[i]]

\* Mutant: the reserve is launched as soon as nothing is in flight.
HedgeReadyWhenIdle ==
    needs_hedging /\ ~hedged /\ (elapsed >= cfg.hedge_after \/ futures = {})

\* Mutant: the hedge timer never completes in the tick it was armed in.
HedgeReadyNextTick == needs_hedging /\ ~hedged /\ elapsed >= Max(cfg.hedge_after, 1)

\* The hedge_sleep branch of select!: its precondition and the timer.
HedgeReady == needs_hedging /\ ~hedged /\ elapsed >= cfg.hedge_after

\* Mutant: the next() branch is switched off until the hedge has fired.
NextReadyOnceHedged == futures # {} /\ ready # {} /\ hedged

\* The next() branch of select!: its precondition and a ready attempt.
NextReady == futures # {} /\ ready # {}

\* Mutant: the loop gives up as soon as nothing is in flight.
LoopDoneWhenIdle == futures = {}

\* The loop leaves through `break`.
LoopDone == futures = {} /\ hedged

\* hedging_logic returns Pending: no branch of select! is ready.
InnerPending == ~LoopDone /\ ~NextReady /\ ~HedgeReady

\* Mutant: the deadline is counted from the hedge, not from dispatch start.
TimeoutFromHedge ==
    /\ InnerPending
    /\ elapsed >= cfg.overall_timeout + (IF needs_hedging THEN cfg.hedge_after ELSE 0)

\* Mutant: the deadline is looked at only when no attempt is in flight.
TimeoutOnlyWhenIdle == InnerPending /\ elapsed >= cfg.overall_timeout /\ futures = {}

\* time::timeout polls hedging_logic first and its own deadline second.
TimeoutReady == InnerPending /\ elapsed >= cfg.overall_timeout

\* ------------------------------------------------- the statistics registry
\* Mutant: every attempt that was ready with Ok is credited a win.
RECURSIVE CreditAll(_, _, _)
CreditAll(s, ids, ms) ==
    IF ids = <<>> THEN s
    ELSE CreditAll([s EXCEPT ![Head(ids)] =
                        [@ EXCEPT !.wins = @ + 1, !.total_latency_ms = @ + ms]],
                   Tail(ids), ms)
LostOkIds ==
    LET idx == SelectSeq([k \in 1..Len(providers) |-> k], LAMBDA k : att[k] = "lost_ok")
    IN  [n \in 1..Len(idx) |-> providers[idx[n]]]
RecordWinEveryOk(s, id, ms) == CreditAll(s, <<id>> \o LostOkIds, ms)

\* Mutant: a win clears the errors the provider has accumulated.
RecordWinClearsErrors(s, id, ms) ==
    IF id \in DOMAIN s
    THEN [s EXCEPT ![id] = [wins |-> @.wins + 1,
                            total_latency_ms |-> @.total_latency_ms + ms,
                            errors |-> 0]]
    ELSE s

\* entry.wins += 1; entry.total_latency_ms += elapsed_ms
RecordWin(s, id, ms) ==
    IF id \in DOMAIN s
    THEN [s EXCEPT ![id] = [@ EXCEPT !.wins = @ + 1, !.total_latency_ms = @ + ms]]
    ELSE s

\* Mutant: a provider that fails is evicted from the registry.
RecordErrorEvicts(s, id) == [k \in DOMAIN s \ {id} |-> s[k]]

\* entry.errors += 1
RecordError(s, id) ==
    IF id \in DOMAIN s THEN [s EXCEPT ![id] = [@ EXCEPT !.errors = @ + 1]] ELSE s

\* for id in ids { entry.errors += 1 }
RECURSIVE RecordErrors(_, _)
RecordErrors(s, ids) ==
    IF ids = <<>> THEN s ELSE RecordErrors(RecordError(s, Head(ids)), Tail(ids))

\* Mutant: only the first failure of the list is charged.
FailureIdsFirstOnly(f) == IF f = <<>> THEN <<>> ELSE <<f[1].id>>

FailureIds(f) == [k \in 1..Len(f) |-> f[k].id]

\* Mutant: a timeout charges only the providers that were contacted.
StatsAfterChargesContacted(s, r, ms) ==
    CASE r.kind = "Elapsed"   ->
            RecordErrors(s, SelectSeq(selected_ids, LAMBDA id :
                                \E i \in 1..max_idx : providers[i] = id /\ att[i] # "idle"))
      [] r.kind = "Ok"        -> RecordWin(s, r.id, ms)
      [] r.kind = "AllFailed" -> RecordErrors(s, FailureIds(r.failures))
      [] OTHER                -> s

\* Mutant: a won call also charges the providers that failed before the win.
StatsAfterChargesFailures(s, r, ms) ==
    CASE r.kind = "Elapsed"   -> RecordErrors(s, selected_ids)
      [] r.kind = "Ok"        -> RecordErrors(RecordWin(s, r.id, ms), FailureIds(failures))
      [] r.kind = "AllFailed" -> RecordErrors(s, FailureIds(r.failures))
      [] OTHER                -> s

\* match timed { Err(_) => .., Ok(Ok(..)) => .., Ok(Err(AllFailed(..))) => .. }:
\* the registry after the call whose race resolved to `r` after `ms`.
StatsAfter(s, r, ms) ==
    CASE r.kind = "Elapsed"   -> RecordErrors(s, selected_ids)
      [] r.kind = "Ok"        -> RecordWin(s, r.id, ms)
      [] r.kind = "AllFailed" -> RecordErrors(s, FailureIds(r.failures))
      [] OTHER                -> s

\* ... and what hedged_call returns.
HedgedResult(r) ==
    IF r.kind = "Elapsed" THEN [kind |-> "Timeout", after |-> cfg.overall_timeout] ELSE r

\* ------------------------------------------------------ hedged_call: steps
\* First poll up to the loop: the guards, the prefix, the clock, the initial wave
\* and the hedge timer.
StartCall ==
    /\ pc = "Idle"
    /\ calls < MaxCalls
    /\ calls' = calls + 1
    /\ \E h \in DOMAIN handles : via' = handles[h]
    /\ IF NoProvidersGuard
       THEN /\ pc' = "Returned"
            /\ result' = [kind |-> "NoProviders"]
            /\ UNCHANGED <<att, hedged>>
       ELSE /\ pc' = "Racing"
            /\ att' = Launch(att, initial_wave)
            /\ hedged' = ~needs_hedging
            /\ UNCHANGED result
    /\ elapsed' = 0
    /\ failures' = <<>>
    /\ UNCHANGED <<providers, cfg, stats, inner>>
    /\ UNCHANGED shared
    /\ UNCHANGED dash

\* Mutant: the attempt itself charges the registry when it fails.
RespondAndRecord(i, outcome) ==
    /\ att[i] = "flying"
    /\ att' = [att EXCEPT ![i] = outcome]
    /\ stats' = IF outcome = "err" THEN RecordError(stats, providers[i]) ELSE stats
    /\ UNCHANGED <<providers, cfg, pc, failures, hedged, elapsed, inner, result>>
    /\ UNCHANGED <<calls, via>>
    /\ UNCHANGED shared
    /\ UNCHANGED dash

\* The provider of a pending attempt answers: its future becomes ready.
Respond(i, outcome) ==
    /\ att[i] = "flying"
    /\ att' = [att EXCEPT ![i] = outcome]
    /\ UNCHANGED <<providers, cfg, stats, pc, failures, hedged, elapsed, inner, result>>
    /\ UNCHANGED <<calls, via>>
    /\ UNCHANGED shared
    /\ UNCHANGED dash

\* Mutant: an Ok is held back while other attempts are still in the collection.
ObserveOkKeepsRacing(i, slot) ==
    /\ pc = "Racing"
    /\ ~LoopDone
    /\ att[i] = "ok"
    /\ IF futures \ {i} # {}
       THEN /\ att' = [att EXCEPT ![i] = "took_ok"]
            /\ UNCHANGED <<pc, inner>>
       ELSE /\ inner' = [kind |-> "Ok", id |-> providers[i], value |-> Value(i, slot)]
            /\ att' = [att EXCEPT ![i] = "took_ok"]
            /\ pc' = "Won"
    /\ UNCHANGED <<providers, cfg, stats, failures, hedged, elapsed, result>>
    /\ UNCHANGED <<calls, via>>
    /\ UNCHANGED shared
    /\ UNCHANGED dash

\* select! takes the next() branch with (provider_id, Ok(val)): return Ok.
ObserveOk(i, slot) ==
    /\ pc = "Racing"
    /\ ~LoopDone
    /\ att[i] = "ok"
    /\ inner' = [kind |-> "Ok", id |-> providers[i], value |-> Value(i, slot)]
    /\ att' = DropFutures([att EXCEPT ![i] = "took_ok"])
    /\ pc' = "Won"
    /\ UNCHANGED <<providers, cfg, stats, failures, hedged, elapsed, result>>
    /\ UNCHANGED <<calls, via>>
    /\ UNCHANGED shared
    /\ UNCHANGED dash

\* Mutant: the failures are kept in the configured priority order.
ObserveErrByPriority(i) ==
    /\ pc = "Racing"
    /\ ~LoopDone
    /\ att[i] = "err"
    /\ LET seen == { k \in DOMAIN att : att[k] = "took_err" } \cup {i}
           ord  == CHOOSE f \in [1..Cardinality(seen) -> seen] :
                       \A a, b \in 1..Cardinality(seen) : a < b => f[a] < f[b]
       IN  failures' = [k \in 1..Cardinality(seen) |-> [id |-> providers[ord[k]], err |-> ord[k]]]
    /\ att' = [att EXCEPT ![i] = "took_err"]
    /\ UNCHANGED <<providers, cfg, stats, pc, hedged, elapsed, inner, result>>
    /\ UNCHANGED <<calls, via>>
    /\ UNCHANGED shared
    /\ UNCHANGED dash

\* select! takes the next() branch with (provider_id, Err(e)): failures.push.
ObserveErr(i) ==
    /\ pc = "Racing"
    /\ ~LoopDone
    /\ att[i] = "err"
    /\ failures' = Append(failures, [id |-> providers[i], err |-> i])
    /\ att' = [att EXCEPT ![i] = "took_err"]
    /\ UNCHANGED <<providers, cfg, stats, pc, hedged, elapsed, inner, result>>
    /\ UNCHANGED <<calls, via>>
    /\ UNCHANGED shared
    /\ UNCHANGED dash

\* Mutant: the hedge also retries the providers that have failed.
HedgeFireRetries ==
    /\ pc = "Racing"
    /\ ~LoopDone
    /\ HedgeReady
    /\ hedged' = TRUE
    /\ att' = Launch(att, reserve \cup { i \in DOMAIN att : att[i] = "took_err" })
    /\ UNCHANGED <<providers, cfg, stats, pc, failures, elapsed, inner, result>>
    /\ UNCHANGED <<calls, via>>
    /\ UNCHANGED shared
    /\ UNCHANGED dash

\* select! takes the hedge_sleep branch: launch the reserve.
HedgeFire ==
    /\ pc = "Racing"
    /\ ~LoopDone
    /\ HedgeReady
    /\ hedged' = TRUE
    /\ att' = Launch(att, reserve)
    /\ UNCHANGED <<providers, cfg, stats, pc, failures, elapsed, inner, result>>
    /\ UNCHANGED <<calls, via>>
    /\ UNCHANGED shared
    /\ UNCHANGED dash

\* futures.is_empty() && hedged: break, Err(AllFailed(failures)).
Exhaust ==
    /\ pc = "Racing"
    /\ LoopDone
    /\ inner' = [kind |-> "AllFailed", failures |-> failures]
    /\ att' = DropFutures(att)
    /\ pc' = "Exhausted"
    /\ UNCHANGED <<providers, cfg, stats, failures, hedged, elapsed, result>>
    /\ UNCHANGED <<calls, via>>
    /\ UNCHANGED shared
    /\ UNCHANGED dash

\* time::timeout resolves to Err(Elapsed); hedging_logic is dropped.
OverallTimeout ==
    /\ pc = "Racing"
    /\ TimeoutReady
    /\ inner' = [kind |-> "Elapsed"]
    /\ att' = DropFutures(att)
    /\ pc' = "TimedOut"
    /\ UNCHANGED <<providers, cfg, stats, failures, hedged, elapsed, result>>
    /\ UNCHANGED <<calls, via>>
    /\ UNCHANGED shared
    /\ UNCHANGED dash

\* match timed { .. }: the registry update and the value returned.
Commit ==
    /\ pc \in {"Won", "Exhausted", "TimedOut"}
    /\ stats' = StatsAfter(stats, inner, elapsed)
    /\ result' = HedgedResult(inner)
    /\ pc' = "Returned"
    /\ UNCHANGED <<providers, cfg, att, failures, hedged, elapsed, inner>>
    /\ UNCHANGED <<calls, via>>
    /\ UNCHANGED shared
    /\ UNCHANGED dash

\* Time passes while the call is suspended.
Tick ==
    /\ pc = "Racing"
    /\ InnerPending
    /\ ~TimeoutReady
    /\ elapsed <= MaxDuration
    /\ elapsed' = elapsed + 1
    /\ UNCHANGED <<providers, cfg, stats, pc, att, failures, hedged, inner, result>>
    /\ UNCHANGED <<calls, via>>
    /\ UNCHANGED shared
    /\ UNCHANGED dash

Next ==
    \/ StartCall
    \/ \E i \in DOMAIN att, o \in {"ok", "err"} : Respond(i, o)
    \/ \E i \in DOMAIN att, slot \in Slots : ObserveOk(i, slot)
    \/ \E i \in DOMAIN att : ObserveErr(i)
    \/ HedgeFire
    \/ Exhaust
    \/ OverallTimeout
    \/ Commit
    \/ Tick

Spec == Init /\ [][Next]_vars

\* The same call on a client whose HedgeConfig carries min_slot.
InitFloor ==
    /\ \E p \in ProviderLists, c \in HedgeConfigWithMinSlot : New(p, c)
    /\ NoCallYet

SpecFloor == InitFloor /\ [][Next]_vars

\* -------------------------------------------------------- public operations
\* Each public operation is hedged_call on its own closure followed by a pure
\* step on what hedged_call returned; `r` is that return value.
StaleResponse == 0

get_latest_blockhash(r) == r

get_latest_blockhash_any(r) ==
    LET g == get_latest_blockhash(r)
    IN  IF g.kind = "Ok" THEN [kind |-> "OkAny", value |-> g.value] ELSE g

get_account(r) == r

\* Mutant: the variant reports every error of the primary as AllFailed.
get_account_any_flattens_errors(r) ==
    IF r.kind = "Ok" THEN [kind |-> "OkAny", value |-> r.value]
    ELSE [kind |-> "AllFailed", failures |-> <<>>]

get_account_any(r) ==
    LET g == get_account(r)
    IN  IF g.kind = "Ok" THEN [kind |-> "OkAny", value |-> g.value] ELSE g

\* Mutant: the synthetic error is put on the first configured provider.
get_account_fresh_blames_first(r, min_slot) ==
    IF r.kind # "Ok" THEN r
    ELSE IF r.value.slot < min_slot
         THEN [kind |-> "AllFailed",
               failures |-> <<[id |-> providers[1], err |-> StaleResponse]>>]
         ELSE r

\* Mutant: a response at exactly min_slot is rejected too.
get_account_fresh_rejects_equal(r, min_slot) ==
    IF r.kind # "Ok" THEN r
    ELSE IF r.value.slot <= min_slot
         THEN [kind |-> "AllFailed",
               failures |-> <<[id |-> r.id, err |-> StaleResponse]>>]
         ELSE r

get_account_fresh(r, min_slot) ==
    LET g == get_account(r)
    IN  IF g.kind # "Ok" THEN g
        ELSE IF g.value.slot < min_slot
             THEN [kind |-> "AllFailed",
                   failures |-> <<[id |-> g.id, err |-> StaleResponse]>>]
             ELSE g

\* What each public operation returns when its hedged_call returned r.
PublicResults(r) ==
    {get_latest_blockhash(r), get_latest_blockhash_any(r), get_account(r), get_account_any(r)}
        \cup { get_account_fresh(r, m) : m \in 0..(MaxSlot + 1) }

\* ================================================================== claims
\* The claims speak of the configuration, not of the names the code computes:
\* the prefix min(max_providers, |providers|) and the initial wave
\* clamp(initial_providers, 1, |selected|).
Terminal == {"Won", "Exhausted", "TimedOut"}
PrefixLen == IF cfg.max_providers <= Len(providers) THEN cfg.max_providers ELSE Len(providers)
InitialLen ==
    IF cfg.initial_providers < 1 THEN (IF PrefixLen < 1 THEN PrefixLen ELSE 1)
    ELSE IF cfg.initial_providers > PrefixLen THEN PrefixLen ELSE cfg.initial_providers
DistinctIds == \A i, j \in 1..Len(providers) : providers[i] = providers[j] => i = j
Taken(st) == { i \in DOMAIN att : att[i] = st }
\* How often id occurs among the first n providers, and in a failure list.
InPrefix(id, n) == Cardinality({ i \in 1..n : providers[i] = id })
InFailures(id, f) == Cardinality({ k \in 1..Len(f) : f[k].id = id })
\* The registry of a client no call has committed to.
Fresh(id) == stats[id].wins = 0 /\ stats[id].errors = 0 /\ stats[id].total_latency_ms = 0

\* C1: hedged_call returns Ok((p, v)) only for an attempt of this call, launched
\* for provider p inside the prefix, that next() yielded with Ok(v); the loop
\* yields at most one Ok per call and, having yielded it, returns it at once.
C1_FirstObservedOkWins ==
    /\ Cardinality(Taken("took_ok")) <= 1
    /\ Taken("took_ok") # {} => pc \in {"Won", "Returned"} /\ inner.kind = "Ok"
    /\ inner.kind = "Ok" =>
          /\ inner.value.by \in 1..PrefixLen
          /\ att[inner.value.by] = "took_ok"
          /\ providers[inner.value.by] = inner.id
    /\ result.kind = "Ok" => pc = "Returned" /\ result = inner

\* A call won by a reserve provider after an earlier failure, one loser ready
\* with Ok and never yielded.
C1_Witness ==
    /\ pc = "Returned"
    /\ result.kind = "Ok"
    /\ result.value.by > InitialLen
    /\ failures # <<>>
    /\ Taken("lost_ok") # {}

\* C2: after a call that returned Ok((w, _)) the wins counter of w, and of no
\* other provider, is one higher, also when another attempt was ready with Ok
\* at the moment the winner was declared.
C2_SingleWinCredit ==
    (pc = "Returned" /\ result.kind = "Ok") =>
        \A id \in DOMAIN stats : stats[id].wins = (IF id = result.id THEN 1 ELSE 0)

\* Two attempts of distinct providers ready with Ok in the same turn.
C2_Witness ==
    /\ pc = "Returned"
    /\ result.kind = "Ok"
    /\ \E j \in Taken("lost_ok") : providers[j] # result.id

\* C3: after a call that returned Timeout, on a client with distinct provider
\* ids, errors is one higher for every provider of the prefix, contacted or
\* not, failed or not, it is unchanged for the others, and no wins changed.
C3_TimeoutPessimism ==
    (pc = "Returned" /\ result.kind = "Timeout" /\ DistinctIds) =>
        \A i \in 1..Len(providers) :
            /\ stats[providers[i]].errors = (IF i <= PrefixLen THEN 1 ELSE 0)
            /\ stats[providers[i]].wins = 0

\* A timeout with one provider failed, one in flight and one never contacted.
C3_Witness ==
    /\ pc = "Returned"
    /\ result.kind = "Timeout"
    /\ DistinctIds
    /\ PrefixLen = 3
    /\ Taken("took_err") # {}
    /\ Taken("dropped") # {}
    /\ Taken("idle") # {}

\* C4: after a call that returned AllFailed(F), errors of each provider is
\* higher by the number of entries F holds for it (one per entry, none for a
\* provider absent from F), and no wins changed.
C4_ErrorOnlyOnFailure ==
    (pc = "Returned" /\ result.kind = "AllFailed") =>
        \A id \in DOMAIN stats :
            /\ stats[id].errors = InFailures(id, result.failures)
            /\ stats[id].wins = 0

\* AllFailed over two providers, a third configured provider outside the prefix.
C4_Witness ==
    /\ pc = "Returned"
    /\ result.kind = "AllFailed"
    /\ Len(result.failures) = 2
    /\ \E id \in DOMAIN stats : InFailures(id, result.failures) = 0

\* C5: no provider at position >= min(max_providers, |providers|) (counted from
\* 0) is ever contacted.
C5_PrefixRespect ==
    \A i \in DOMAIN att : i > PrefixLen => att[i] = "idle"

\* The whole prefix contacted and failed, hedge fired, a provider left outside.
C5_Witness ==
    /\ pc = "Exhausted"
    /\ PrefixLen = 2
    /\ InitialLen = 1
    /\ Len(providers) = 3
    /\ att[3] = "idle"

\* C6: no reserve provider is contacted before hedge_after has elapsed since
\* dispatch start, also when every initial attempt has already failed.
C6_HedgeLowerBound ==
    \A i \in DOMAIN att :
        (i > InitialLen /\ att[i] # "idle") => elapsed >= cfg.hedge_after

\* Every initial attempt has failed, time has passed, the hedge is not due: the
\* scheduler waits with nothing in flight.
C6_Witness ==
    /\ pc = "Racing"
    /\ InitialLen < PrefixLen
    /\ \A i \in 1..InitialLen : att[i] = "took_err"
    /\ \A i \in (InitialLen + 1)..PrefixLen : att[i] = "idle"
    /\ 0 < elapsed
    /\ elapsed < cfg.hedge_after

\* C7: a call with a non-empty prefix returns no later than overall_timeout
\* after dispatch start, whatever the providers do; it then returns
\* Timeout(overall_timeout) unless an attempt succeeded or the prefix is
\* exhausted.
C7_HardDeadline ==
    /\ pc # "Idle" => elapsed <= cfg.overall_timeout
    /\ (pc = "Returned" /\ result.kind = "Timeout") =>
          /\ result.after = cfg.overall_timeout
          /\ elapsed = cfg.overall_timeout
    /\ ( /\ pc = "Returned"
         /\ PrefixLen >= 1
         /\ Taken("took_ok") \cup Taken("lost_ok") = {}
         /\ \E i \in 1..PrefixLen : att[i] # "took_err" ) =>
          result.kind = "Timeout"

\* A provider of the initial wave and one of the reserve never answered.
C7_Witness ==
    /\ pc = "Returned"
    /\ result.kind = "Timeout"
    /\ cfg.overall_timeout = MaxDuration
    /\ \E i \in Taken("dropped") : i <= InitialLen
    /\ \E i \in Taken("dropped") : i > InitialLen

\* C8: with an empty provider list or max_providers = 0 every public operation
\* returns NoProviders at once: nobody is contacted, no time passes, no timer
\* is armed, the registry is as it was.
C8_NoProviders ==
    (Len(providers) = 0 \/ cfg.max_providers = 0) =>
        /\ pc \in {"Idle", "Returned"}
        /\ \A i \in DOMAIN att : att[i] = "idle"
        /\ elapsed = 0
        /\ \A id \in DOMAIN stats : Fresh(id)
        /\ pc = "Returned" => PublicResults(result) = {[kind |-> "NoProviders"]}

\* Three providers configured and max_providers = 0.
C8_Witness ==
    /\ pc = "Returned"
    /\ result.kind = "NoProviders"
    /\ Len(providers) = 3
    /\ cfg.max_providers = 0

\* C9: the registry changes in one step only, the one in which the call
\* returns; what an attempt does, before or after the call is decided, changes
\* nothing.  After Ok only the winner's entry differs and it carries no
\* error; after AllFailed and Timeout only entries of the enumerated providers
\* differ and no wins; after NoProviders nothing differs.
C9_OnlyTheCallCommits ==
    /\ [][stats' # stats => (pc \in Terminal /\ pc' = "Returned")]_vars
    /\ [](pc = "Returned" =>
            \A id \in DOMAIN stats :
                CASE result.kind = "Ok" ->
                        /\ stats[id].errors = 0
                        /\ id # result.id => Fresh(id)
                  [] result.kind = "AllFailed" ->
                        /\ stats[id].wins = 0
                        /\ InFailures(id, result.failures) = 0 => Fresh(id)
                  [] result.kind = "Timeout" ->
                        /\ stats[id].wins = 0
                        /\ InPrefix(id, PrefixLen) = 0 => Fresh(id)
                  [] OTHER -> Fresh(id))

\* A won call with an earlier failure and two kinds of loser: one ready with
\* Err and one ready with Ok when the winner was declared.
C9_Witness ==
    /\ pc = "Returned"
    /\ result.kind = "Ok"
    /\ \E j \in Taken("lost_ok") : providers[j] # result.id
    /\ \E j \in Taken("lost_err") : providers[j] # result.id

\* C10: from the moment the call is Won, Exhausted or TimedOut no attempt of it
\* is in flight or ready, none makes progress and none is launched.
C10_LosersCancelled ==
    /\ [](pc \in Terminal \cup {"Returned"} =>
            \A i \in DOMAIN att : att[i] \notin {"flying", "ok", "err"})
    /\ [][(pc \in Terminal \cup {"Returned"} => (att' = att))]_vars

\* A call won in the initial wave with a loser in flight and the reserve never
\* launched.
C10_Witness ==
    /\ pc = "Returned"
    /\ result.kind = "Ok"
    /\ \E i \in Taken("dropped") : i <= InitialLen
    /\ \E i \in Taken("idle") : InitialLen < i /\ i <= PrefixLen

\* ------------------------------------------------- get_account_fresh
\* The min_slot arguments a caller may pass.
MinSlots == 0..(MaxSlot + 1)

\* C12 (as claimed): when get_account_fresh fails because the winning response
\* is older than min_slot, the winner's errors is one higher and no wins
\* changed.
C12_StaleWinnerChargedAnError ==
    \A m \in MinSlots :
        (pc = "Returned" /\ result.kind = "Ok" /\ result.value.slot < m) =>
            /\ get_account_fresh(result, m).kind = "AllFailed"
            /\ stats[result.id].errors = 1
            /\ \A id \in DOMAIN stats : stats[id].wins = 0

\* C13: a race won by w with a response older than min_slot makes
\* get_account_fresh return AllFailed with the single entry (w, StaleResponse);
\* the race is over by then: no attempt is in flight or ready.
C13_StaleWinnerIsTheOnlyFailure ==
    \A m \in MinSlots :
        (pc = "Returned" /\ result.kind = "Ok" /\ result.value.slot < m) =>
            /\ get_account_fresh(result, m) =
                  [kind |-> "AllFailed",
                   failures |-> <<[id |-> result.id, err |-> StaleResponse]>>]
            /\ providers[result.value.by] = result.id
            /\ \A i \in DOMAIN att : att[i] \notin {"flying", "ok", "err"}

\* A stale winner from the reserve; an initial provider was still in flight.
C13_Witness ==
    /\ pc = "Returned"
    /\ result.kind = "Ok"
    /\ result.value.slot < MaxSlot
    /\ result.value.by > 1
    /\ providers[result.value.by] # providers[1]
    /\ att[1] = "dropped"

\* C14: get_account_fresh(.., s) returns Ok only with context.slot >= s, and
\* a response at exactly s is returned.
C14_FreshOkMeansFresh ==
    (pc = "Returned" /\ result.kind = "Ok") =>
        /\ \A m \in MinSlots :
              get_account_fresh(result, m).kind = "Ok" =>
                  get_account_fresh(result, m).value.slot >= m
        /\ get_account_fresh(result, result.value.slot) = result

\* A winner whose slot is the floor asked for, the floor above the lowest slot.
C14_Witness ==
    /\ pc = "Returned"
    /\ result.kind = "Ok"
    /\ result.value.slot = MaxSlot
    /\ MaxSlot > 0

\* C20: an Ok that arrives before overall_timeout decides the call.  While an
\* attempt is ready with Ok the call is not suspended: no time passes and it
\* neither times out nor gives up, so the winner is an Ok of the earliest
\* tick in which one arrived; the call resolves to Ok, and after it returned
\* no other provider's entry has changed.
C20_EarliestOkWins ==
    /\ (pc = "Racing" /\ Taken("ok") # {}) =>
          ~ENABLED Tick /\ ~ENABLED OverallTimeout /\ ~ENABLED Exhaust
    /\ ( /\ pc \in Terminal \cup {"Returned"}
         /\ elapsed < cfg.overall_timeout
         /\ Taken("took_ok") \cup Taken("lost_ok") # {} ) => inner.kind = "Ok"
    /\ (pc = "Returned" /\ result.kind = "Ok") =>
          \A id \in DOMAIN stats : id # result.id => Fresh(id)

\* Won by a reserve provider before the deadline: one initial provider failed,
\* another never answered.
C20_Witness ==
    /\ pc = "Returned"
    /\ result.kind = "Ok"
    /\ result.value.by > InitialLen
    /\ 0 < elapsed
    /\ elapsed < cfg.overall_timeout
    /\ \E i \in Taken("took_err") : i <= InitialLen
    /\ \E i \in Taken("dropped") : i <= InitialLen /\ providers[i] # result.id

\* ------------------------------------------------- HedgeConfig.min_slot
\* What the account operations return when hedged_call returned r; the
\* freshness-aware one with every min_slot argument a caller may pass.
AccountResults(r) ==
    {get_account(r), get_account_any(r)} \cup { get_account_fresh(r, m) : m \in MinSlots }

\* C15 (as claimed): with HedgeConfig.min_slot = Some(s) no account operation
\* returns as a success a response whose context.slot is below s.
C15_ConfiguredFloorRejectsStale ==
    (pc = "Returned" /\ cfg.min_slot # <<>> /\ result.kind = "Ok") =>
        \A g \in AccountResults(result) :
            g.kind \in {"Ok", "OkAny"} => g.value.slot >= cfg.min_slot[1]

\* ============================================ one registry, several calls
\* HedgedRpcClient derives Clone over Arc fields: the clone's `stats` points to
\* the allocation of the handle it was cloned from.  `fresh` is an allocation
\* nobody points to yet.
\* Mutant: the clone gets a registry of its own.
DeepClone(ptr, fresh) == fresh

ArcClone(ptr, fresh) == ptr

\* The registry an Arc points to: `stats` is the allocation `new` made.
Registry(ptr) == IF ptr = handles[1] THEN stats ELSE heap[ptr]

\* Storing through the MutexGuard of allocation ptr.
Store(ptr, reg) ==
    /\ stats' = IF ptr = handles[1] THEN reg ELSE stats
    /\ heap' = IF ptr = handles[1] THEN heap ELSE [heap EXCEPT ![ptr] = reg]

\* HedgedRpcClient::clone through handle h.
Clone(h) ==
    /\ Len(handles) < MaxCalls
    /\ LET fresh == Len(handles) + 1
           ptr   == ArcClone(handles[h], fresh)
       IN  /\ handles' = Append(handles, ptr)
           /\ heap' = IF ptr = fresh THEN heap @@ (fresh :> Registry(handles[h])) ELSE heap
    /\ UNCHANGED <<providers, cfg, stats, pc, att, failures, hedged, elapsed, inner, result>>
    /\ UNCHANGED <<calls, via, locked, pool, snap, accounted>>
    /\ UNCHANGED dash

\* The arms of `match timed` as the list of registry updates each makes while
\* it holds the guard.
Update(kind, id, ms) == [op |-> kind, id |-> id, ms |-> ms]

Updates(r, ms) ==
    CASE r.kind = "Elapsed"   ->
            [k \in 1..Len(selected_ids) |-> Update("error", selected_ids[k], 0)]
      [] r.kind = "Ok"        -> <<Update("win", r.id, ms)>>
      [] r.kind = "AllFailed" ->
            [k \in 1..Len(r.failures) |-> Update("error", r.failures[k].id, 0)]
      [] OTHER                -> <<>>

Apply(s, u) == IF u.op = "win" THEN RecordWin(s, u.id, u.ms) ELSE RecordError(s, u.id)

\* Ghost: what a call whose race resolved to r after ms owes each provider,
\* in the words of the contract: a win and its latency to the winner, one
\* error per failure-list entry, one error per selected provider on timeout.
Owes(r, ms) ==
    [id \in DOMAIN accounted |->
        [wins |-> IF r.kind = "Ok" /\ r.id = id THEN 1 ELSE 0,
         total_latency_ms |-> IF r.kind = "Ok" /\ r.id = id THEN ms ELSE 0,
         errors |-> CASE r.kind = "AllFailed" -> InFailures(id, r.failures)
                      [] r.kind = "Elapsed"   -> InPrefix(id, PrefixLen)
                      [] OTHER                -> 0]]

Plus(a, o) ==
    [id \in DOMAIN a |->
        [wins |-> a[id].wins + o[id].wins,
         total_latency_ms |-> a[id].total_latency_ms + o[id].total_latency_ms,
         errors |-> a[id].errors + o[id].errors]]

\* The calls past their race.
Entries == BagToSet(pool)
Swap(e, f) == (pool (-) SetToBag({e})) (+) SetToBag({f})

\* time::timeout has resolved and elapsed_ms is taken: the call stands at
\* `match timed`, about to lock self.stats.  The race variables are handed to
\* the next call.
Resolve ==
    /\ pc \in {"Won", "Exhausted", "TimedOut"}
    /\ pool' = pool (+) SetToBag({[ptr  |-> via,
                                   todo |-> Updates(inner, elapsed),
                                   held |-> FALSE,
                                   owes |-> Owes(inner, elapsed)]})
    /\ pc' = "Idle"
    /\ att' = [i \in DOMAIN att |-> "idle"]
    /\ failures' = <<>>
    /\ hedged' = FALSE
    /\ elapsed' = 0
    /\ inner' = NoResult
    /\ UNCHANGED <<providers, cfg, stats, result>>
    /\ UNCHANGED <<calls, via, handles, heap, locked, snap, accounted>>
    /\ UNCHANGED dash

\* A call that returned NoProviders is over; the caller issues the next one.
NextCall ==
    /\ pc = "Returned"
    /\ pc' = "Idle"
    /\ result' = NoResult
    /\ UNCHANGED <<providers, cfg, stats, att, failures, hedged, elapsed, inner>>
    /\ UNCHANGED <<calls, via>>
    /\ UNCHANGED shared
    /\ UNCHANGED dash

\* self.stats.lock() returns the guard.
CommitBegin(e) ==
    /\ ~e.held
    /\ e.ptr \notin locked
    /\ locked' = locked \cup {e.ptr}
    /\ pool' = Swap(e, [e EXCEPT !.held = TRUE])
    /\ UNCHANGED <<providers, cfg, stats, pc, att, failures, hedged, elapsed, inner, result>>
    /\ UNCHANGED <<calls, via, handles, heap, snap, accounted>>
    /\ UNCHANGED dash

\* One turn of the loop over the ids (or the single win), under the guard.
CommitEntry(e) ==
    /\ e.held
    /\ e.todo # <<>>
    /\ Store(e.ptr, Apply(Registry(e.ptr), Head(e.todo)))
    /\ pool' = Swap(e, [e EXCEPT !.todo = Tail(e.todo)])
    /\ snap' = NoSnapshot
    /\ UNCHANGED <<providers, cfg, pc, att, failures, hedged, elapsed, inner, result>>
    /\ UNCHANGED <<calls, via, handles, locked, accounted>>
    /\ UNCHANGED dash

\* The guard is dropped and hedged_call returns.
CommitEnd(e) ==
    /\ e.held
    /\ e.todo = <<>>
    /\ locked' = locked \ {e.ptr}
    /\ pool' = pool (-) SetToBag({e})
    /\ accounted' = Plus(accounted, e.owes)
    /\ UNCHANGED <<providers, cfg, stats, pc, att, failures, hedged, elapsed, inner, result>>
    /\ UNCHANGED <<calls, via, handles, heap, snap>>
    /\ UNCHANGED dash

\* s.total_latency_ms / (s.wins as f64): the quotient in lowest terms.
RECURSIVE GCD(_, _)
GCD(a, b) == IF b = 0 THEN a ELSE GCD(b, a % b)
Quotient(a, b) == [num |-> a \div GCD(a, b), den |-> b \div GCD(a, b)]

\* Mutant: the average is taken without looking at wins first.
provider_stats_unguarded(s) ==
    [id \in DOMAIN s |->
        [wins |-> s[id].wins,
         avg_latency_ms |-> [num |-> s[id].total_latency_ms, den |-> s[id].wins],
         errors |-> s[id].errors]]

\* The map provider_stats() builds from the registry s.
provider_stats(s) ==
    [id \in DOMAIN s |->
        [wins |-> s[id].wins,
         avg_latency_ms |-> IF s[id].wins > 0
                            THEN Quotient(s[id].total_latency_ms, s[id].wins)
                            ELSE Quotient(0, 1),
         errors |-> s[id].errors]]

\* Mutant: the snapshot reads the map without taking the lock.
SnapshotUnlocked(ptr) == TRUE

\* self.stats.lock() of provider_stats returns the guard.
SnapshotReady(ptr) == ptr \notin locked

\* Mutant: the snapshot drains the registry.
SnapshotAndReset(h) ==
    /\ SnapshotReady(handles[h])
    /\ snap' = [kind |-> "Some", ptr |-> handles[h],
                stats |-> provider_stats(Registry(handles[h]))]
    /\ Store(handles[h], [id \in DOMAIN Registry(handles[h]) |-> ProviderStats])
    /\ UNCHANGED <<providers, cfg, pc, att, failures, hedged, elapsed, inner, result>>
    /\ UNCHANGED <<calls, via, handles, locked, pool, accounted>>
    /\ UNCHANGED dash

\* provider_stats() through handle h: lock, build the map, unlock.
Snapshot(h) ==
    /\ SnapshotReady(handles[h])
    /\ snap' = [kind |-> "Some", ptr |-> handles[h],
                stats |-> provider_stats(Registry(handles[h]))]
    /\ UNCHANGED <<providers, cfg, stats, pc, att, failures, hedged, elapsed, inner, result>>
    /\ UNCHANGED <<calls, via, handles, heap, locked, pool, accounted>>
    /\ UNCHANGED dash

\* The clients of SpecShared: two providers, the second one held in reserve,
\* or nothing selected at all.
SharedProviderLists == { p \in ProviderLists : Len(p) = 2 }
SharedConfigs ==
    { c \in HedgeConfig : /\ c.initial_providers = 1
                          /\ c.hedge_after = 1
                          /\ c.max_providers \in 0..2
                          /\ c.overall_timeout \in 1..2 }

InitShared ==
    /\ \E p \in SharedProviderLists, c \in SharedConfigs : New(p, c)
    /\ NoCallYet

NextShared ==
    \/ StartCall
    \/ \E i \in DOMAIN att, o \in {"ok", "err"} : Respond(i, o)
    \/ \E i \in DOMAIN att, slot \in Slots : ObserveOk(i, slot)
    \/ \E i \in DOMAIN att : ObserveErr(i)
    \/ HedgeFire
    \/ Exhaust
    \/ OverallTimeout
    \/ Tick
    \/ Resolve
    \/ NextCall
    \/ \E h \in DOMAIN handles : Clone(h)
    \/ \E e \in Entries : CommitBegin(e)
    \/ \E e \in Entries : CommitEntry(e)
    \/ \E e \in Entries : CommitEnd(e)
    \/ \E h \in DOMAIN handles : Snapshot(h)

SpecShared == InitShared /\ [][NextShared]_vars

\* ---------------------------------------------- claims on the registry
ConfiguredIds == { providers[i] : i \in 1..Len(providers) }

\* How many counter updates a call owes in all.
RECURSIVE DueOver(_, _)
DueOver(o, ids) ==
    IF ids = {} THEN 0
    ELSE LET id == CHOOSE x \in ids : TRUE
         IN  o[id].wins + o[id].errors + DueOver(o, ids \ {id})
Due(o) == DueOver(o, DOMAIN o)

\* No call is racing or waiting to commit: every call issued has returned.
AllReturned == pool = EmptyBag /\ pc \in {"Idle", "Returned"}

\* C11: a call's registry updates are made after its race has resolved and as
\* one group: whenever provider_stats() can read the registry, each call past
\* its race has made none of its updates or all of them, and the registry is
\* what the returned calls owe, plus the whole of a call that has made them all.
C11_CommitIsOneGroup ==
    \A h \in DOMAIN handles :
        ENABLED Snapshot(h) =>
            LET mine == { e \in Entries : e.ptr = handles[h] }
                done == { e \in mine : e.held /\ e.todo = <<>> }
            IN  /\ \A e \in mine : Len(e.todo) \in {0, Due(e.owes)}
                /\ \/ Registry(handles[h]) = accounted
                   \/ \E e \in done : Registry(handles[h]) = Plus(accounted, e.owes)

\* A call that failed over two providers has charged one of them and still
\* holds the lock; a second call, past its race, waits for it.
C11_Witness ==
    /\ \E e \in Entries : e.held /\ Len(e.todo) = 1 /\ Due(e.owes) = 2
    /\ \E e \in Entries : ~e.held
    /\ \A h \in DOMAIN handles : ~ENABLED Snapshot(h)

\* C16: the keys of the registry are the configured provider ids in every
\* state, whatever calls have resolved, committed or returned NoProviders and
\* whatever snapshots were taken; a snapshot has the same keys.
C16_KeysAreTheConfiguredIds ==
    /\ \A h \in DOMAIN handles : DOMAIN Registry(handles[h]) = ConfiguredIds
    /\ snap # NoSnapshot => DOMAIN snap.stats = ConfiguredIds

\* Every call has returned, a provider has won and one has been charged, and
\* a snapshot was taken since.
C16_Witness ==
    /\ AllReturned
    /\ calls = MaxCalls
    /\ snap # NoSnapshot
    /\ \E id \in DOMAIN stats : stats[id].wins > 0
    /\ \E id \in DOMAIN stats : stats[id].errors > 0

\* C17: no step lowers the wins or the errors counter of a provider.
C17_CountersNeverDecrease ==
    [][\A id \in DOMAIN stats :
            /\ id \in DOMAIN stats'
            /\ stats'[id].wins >= stats[id].wins
            /\ stats'[id].errors >= stats[id].errors]_vars

\* A provider charged by one call wins another.
C17_Witness ==
    \E id \in DOMAIN stats : stats[id].errors > 0 /\ stats[id].wins > 0

\* C18: provider_stats() leaves the registry as it found it: until a call
\* commits, the registry still reads as the snapshot taken, so a second
\* snapshot is the same map.
C18_SnapshotIsARead ==
    snap # NoSnapshot =>
        /\ provider_stats(Registry(snap.ptr)) = snap.stats
        /\ \A h \in DOMAIN handles : provider_stats(Registry(handles[h])) = snap.stats

\* A snapshot showing what a first call committed, still standing while a
\* second call, past its race, waits to commit.
C18_Witness ==
    /\ snap # NoSnapshot
    /\ \E id \in DOMAIN snap.stats : snap.stats[id].wins + snap.stats[id].errors > 0
    /\ \E e \in Entries : ~e.held /\ Due(e.owes) > 0

\* C19: the handles of a client share one registry and no update is lost: once
\* every call has returned, the registry read through any handle shows for
\* each provider the wins and the errors the calls owe it.
C19_NoUpdateLost ==
    AllReturned =>
        \A h \in DOMAIN handles : \A id \in ConfiguredIds :
            /\ Registry(handles[h])[id].wins = accounted[id].wins
            /\ Registry(handles[h])[id].errors = accounted[id].errors
            /\ Registry(handles[h])[id].total_latency_ms = accounted[id].total_latency_ms

\* All calls issued, through a client that was cloned, have returned; one
\* provider was charged by two of them and one won.
C19_Witness ==
    /\ AllReturned
    /\ calls = MaxCalls
    /\ Len(handles) > 1
    /\ \E id \in ConfiguredIds : accounted[id].errors >= 2
    /\ \E id \in ConfiguredIds : accounted[id].wins >= 1

\* =========================================== the scheduler, one call
\* C21: the failure list is in the order in which the scheduler observed the
\* failures: each failure observed is put at the end of the list, nothing is
\* ever moved or taken out while the call races, and AllFailed carries the
\* list as it stands when the loop ends.
C21_FailuresInArrivalOrder ==
    /\ [][(failures' # failures) =>
             \E i \in DOMAIN att :
                 /\ att[i] = "err"
                 /\ att'[i] = "took_err"
                 /\ failures' = Append(failures, [id |-> providers[i], err |-> i])]_vars
    /\ [](inner.kind = "AllFailed" => inner.failures = failures)
    /\ [](result.kind = "AllFailed" => result.failures = failures)

\* AllFailed whose list names a provider of lower priority first.
C21_Witness ==
    /\ pc = "Returned"
    /\ result.kind = "AllFailed"
    /\ Len(result.failures) >= 2
    /\ result.failures[1].err > result.failures[2].err
    /\ providers[result.failures[1].err] # providers[result.failures[2].err]

\* C22: get_account_any and get_latest_blockhash_any return the response of
\* the Ok the primary variant returns, and the primary's error as it is; they
\* run the primary's call, so a response is returned exactly when a win was
\* credited.
C22_AnyIsAProjection ==
    pc = "Returned" =>
        \A pair \in { <<get_account(result), get_account_any(result)>>,
                      <<get_latest_blockhash(result), get_latest_blockhash_any(result)>> } :
            /\ IF pair[1].kind = "Ok"
               THEN pair[2] = [kind |-> "OkAny", value |-> pair[1].value]
               ELSE pair[2] = pair[1]
            /\ (pair[2].kind = "OkAny") = (\E id \in DOMAIN stats : stats[id].wins > 0)

\* The primary timed out with one provider failed and one in flight.
C22_Witness ==
    /\ pc = "Returned"
    /\ result.kind = "Timeout"
    /\ get_account_any(result).kind = "Timeout"
    /\ Taken("took_err") # {}
    /\ Taken("dropped") # {}

\* C23: a snapshot entry shows the provider's wins and errors, and as
\* avg_latency_ms the accumulated winning latency over wins, or 0 when the
\* provider never won.
C23_SnapshotEntry ==
    snap # NoSnapshot =>
        \A id \in DOMAIN snap.stats :
            LET e == snap.stats[id]
                s == Registry(snap.ptr)[id]
            IN  /\ e.wins = s.wins
                /\ e.errors = s.errors
                /\ e.avg_latency_ms.den > 0
                /\ IF s.wins = 0
                   THEN e.avg_latency_ms.num = 0
                   ELSE e.avg_latency_ms.num * s.wins = s.total_latency_ms * e.avg_latency_ms.den

\* A snapshot with a provider that won after some time and a provider that
\* was only ever charged errors.
C23_Witness ==
    /\ snap # NoSnapshot
    /\ \E id \in DOMAIN snap.stats :
           snap.stats[id].wins > 0 /\ snap.stats[id].avg_latency_ms.num > 0
    /\ \E id \in DOMAIN snap.stats :
           snap.stats[id].wins = 0 /\ snap.stats[id].errors > 0

\* ======================================================= the presets
\* HedgeConfig::low_latency / conservative / aggressive (src/src/config.rs).
\* Durations are in milliseconds here; min_slot: None is <<>>.
\* Mutant: aggressive races as many providers as low_latency.
aggressive_races_two(providers_len) ==
    [initial_providers |-> 2, hedge_after |-> 20, max_providers |-> providers_len,
     min_slot |-> <<>>, overall_timeout |-> 1000]

low_latency(providers_len) ==
    [initial_providers |-> 2, hedge_after |-> 20, max_providers |-> providers_len,
     min_slot |-> <<>>, overall_timeout |-> 1000]

conservative(providers_len) ==
    [initial_providers |-> 1, hedge_after |-> 100, max_providers |-> providers_len,
     min_slot |-> <<>>, overall_timeout |-> 3000]

aggressive(providers_len) ==
    [initial_providers |-> 3, hedge_after |-> 20, max_providers |-> providers_len,
     min_slot |-> <<>>, overall_timeout |-> 1000]

\* The provider counts a caller passes: usually, not necessarily, the length
\* of the list the client is built from.
ProviderCounts == 0..(MaxProviders + 1)

\* The configuration of the client is replaced by what a factory returns.
UsePreset(c) ==
    /\ cfg' = c
    /\ UNCHANGED <<providers, stats, pc, att, failures, hedged, elapsed, inner, result>>
    /\ UNCHANGED <<calls, via>>
    /\ UNCHANGED shared
    /\ UNCHANGED dash

UseLowLatency == \E n \in ProviderCounts : UsePreset(low_latency(n))
UseConservative == \E n \in ProviderCounts : UsePreset(conservative(n))
UseAggressive == \E n \in ProviderCounts : UsePreset(aggressive(n))

InitPresets ==
    /\ \E p \in ProviderLists, n \in ProviderCounts : New(p, conservative(n))
    /\ NoCallYet

NextPresets == UseLowLatency \/ UseConservative \/ UseAggressive

SpecPresets == InitPresets /\ [][NextPresets]_vars

\* C24: low_latency is (2 initial, 20 ms, 1 s), conservative (1, 100 ms, 3 s),
\* aggressive (3, 20 ms, 1 s), each with max_providers the count passed in and
\* min_slot unset; a configuration made by a factory is one of these.
C24_Presets ==
    /\ \A n \in ProviderCounts :
          /\ low_latency(n) =
                [initial_providers |-> 2, hedge_after |-> 20, max_providers |-> n,
                 min_slot |-> <<>>, overall_timeout |-> 1000]
          /\ conservative(n) =
                [initial_providers |-> 1, hedge_after |-> 100, max_providers |-> n,
                 min_slot |-> <<>>, overall_timeout |-> 3000]
          /\ aggressive(n) =
                [initial_providers |-> 3, hedge_after |-> 20, max_providers |-> n,
                 min_slot |-> <<>>, overall_timeout |-> 1000]
    /\ cfg.min_slot = <<>>
    /\ <<cfg.initial_providers, cfg.hedge_after, cfg.overall_timeout>>
          \in { <<2, 20, 1000>>, <<1, 100, 3000>>, <<3, 20, 1000>> }

\* aggressive for a client of two providers: more initial providers asked for
\* than there are.
C24_Witness ==
    /\ cfg.initial_providers = 3
    /\ cfg.max_providers = Len(providers)
    /\ Len(providers) = 2

\* ================================================ the caller lets go
\* Mutant: the attempts are tasks of their own and survive the call.
CancelLeavesAttempts ==
    /\ pc = "Racing"
    /\ pc' = "Cancelled"
    /\ UNCHANGED <<providers, cfg, stats, att, failures, hedged, elapsed, inner, result>>
    /\ UNCHANGED <<calls, via>>
    /\ UNCHANGED shared
    /\ UNCHANGED dash

\* The caller drops the future of hedged_call while it is pending at
\* time::timeout(..).await, its only await: the Timeout, hedging_logic and the
\* FuturesUnordered inside are dropped with it, and `match timed` is never
\* reached.
Cancel ==
    /\ pc = "Racing"
    /\ pc' = "Cancelled"
    /\ att' = DropFutures(att)
    /\ UNCHANGED <<providers, cfg, stats, failures, hedged, elapsed, inner, result>>
    /\ UNCHANGED <<calls, via>>
    /\ UNCHANGED shared
    /\ UNCHANGED dash

NextCancel == Next \/ Cancel

SpecCancel == Init /\ [][NextCancel]_vars

\* C25: once the caller has dropped a call that had not resolved, no attempt
\* of it is in flight or ready, nothing of it can take a step any more, and
\* the registry is as it was before the call; nothing is returned.
C25_CancelledCallLeavesNothing ==
    pc = "Cancelled" =>
        /\ \A i \in DOMAIN att : att[i] \notin {"flying", "ok", "err"}
        /\ ~ENABLED NextCancel
        /\ \A id \in DOMAIN stats : Fresh(id)
        /\ inner = NoResult
        /\ result = NoResult

\* Dropped after the hedge: an initial attempt had failed, one was ready with
\* Ok and not yet seen, a reserve attempt was in flight.
C25_Witness ==
    /\ pc = "Cancelled"
    /\ hedged
    /\ failures # <<>>
    /\ Taken("lost_ok") # {}
    /\ \E i \in Taken("dropped") : i > InitialLen

\* C26: AllFailed(F) is returned only when the hedge has fired or there was no
\* reserve, and every provider of the prefix was contacted and seen to fail:
\* F has one entry per position of the prefix and none for another provider.
C26_AllFailedMeansPrefixExhausted ==
    (inner.kind = "AllFailed" \/ result.kind = "AllFailed") =>
        /\ InitialLen = PrefixLen \/ elapsed >= cfg.hedge_after
        /\ \A i \in DOMAIN att : att[i] = (IF i <= PrefixLen THEN "took_err" ELSE "idle")
        /\ Len(inner.failures) = PrefixLen
        /\ \A id \in DOMAIN stats : InFailures(id, inner.failures) = InPrefix(id, PrefixLen)
        /\ { inner.failures[k].err : k \in 1..Len(inner.failures) } = 1..PrefixLen

\* Exhausted after the hedge, distinct ids, a provider outside the prefix.
C26_Witness ==
    /\ pc = "Returned"
    /\ result.kind = "AllFailed"
    /\ DistinctIds
    /\ InitialLen = 1
    /\ PrefixLen = 2
    /\ Len(providers) = 3
    /\ cfg.hedge_after > 0

\* The positions contacted so far.
Launched == { i \in DOMAIN att : att[i] # "idle" }

\* C27: the providers contacted by a call are the first
\* clamp(initial_providers, 1, |selected|) of the configured order until the
\* hedge fires, and the whole prefix min(max_providers, |providers|) from then
\* on: the hedge adds exactly the rest of the prefix.
C27_InitialWaveAndReserve ==
    (pc # "Idle" /\ PrefixLen >= 1) =>
        /\ Launched \in {1..InitialLen, 1..PrefixLen}
        /\ hedged = (Launched = 1..PrefixLen)
        /\ (InitialLen < PrefixLen /\ Launched = 1..PrefixLen) => elapsed >= cfg.hedge_after

\* initial_providers = 0 and three providers selected: one is contacted, the
\* other two wait for the hedge.
C27_Witness ==
    /\ pc = "Racing"
    /\ cfg.initial_providers = 0
    /\ PrefixLen = 3
    /\ Launched = {1}
    /\ elapsed > 0

\* C28: with initial_providers >= |selected| >= 1 the call runs as with
\* initial_providers = |selected|: the whole prefix is contacted at dispatch
\* start, the hedge has nothing to launch and never fires, the oversized
\* value is no error, and once the last attempt has been seen to fail the call
\* is exhausted at once, whatever hedge_after is.
C28_OversizedInitialIsClamped ==
    (cfg.initial_providers >= PrefixLen /\ PrefixLen >= 1 /\ pc # "Idle") =>
        /\ Launched = 1..PrefixLen
        /\ InitialLen = PrefixLen
        /\ hedged
        /\ ~ENABLED HedgeFire
        /\ result.kind # "NoProviders"
        /\ (pc = "Racing" /\ \A i \in 1..PrefixLen : att[i] = "took_err") =>
              ENABLED Exhaust /\ ~ENABLED Tick /\ ~ENABLED OverallTimeout
        /\ (pc \in Terminal \cup {"Returned"} /\ \A i \in 1..PrefixLen : att[i] = "took_err") =>
              inner.kind = "AllFailed"

\* More initial providers asked for than configured; both fail before
\* hedge_after and the call returns AllFailed without waiting for it.
C28_Witness ==
    /\ pc = "Returned"
    /\ result.kind = "AllFailed"
    /\ cfg.initial_providers > Len(providers)
    /\ cfg.max_providers > Len(providers)
    /\ Len(providers) = 2
    /\ elapsed < cfg.hedge_after
    /\ elapsed < cfg.overall_timeout

\* C29: within a call a position is contacted at most once: an attempt that
\* was launched is never launched again, failed or not.  The reserve is
\* launched in one step, all of it, and the hedge, once fired, stays fired.
C29_HedgeOnceNoRetry ==
    [][/\ \A i \in DOMAIN att : (att[i] # "idle" /\ att'[i] = "flying") => att[i] = "flying"
       /\ (\E i \in DOMAIN att : i > InitialLen /\ att[i] = "idle" /\ att'[i] # "idle") =>
             /\ ~hedged /\ hedged'
             /\ \A j \in (InitialLen + 1)..PrefixLen : att[j] = "idle" /\ att'[j] = "flying"
             /\ \A j \in DOMAIN att : (j <= InitialLen \/ j > PrefixLen) => att'[j] = att[j]
       /\ hedged => hedged']_vars

\* The hedge has launched two reserve providers at once; the initial provider
\* had failed before and is left alone.
C29_Witness ==
    /\ pc = "Racing"
    /\ InitialLen = 1
    /\ PrefixLen = 3
    /\ att = <<"took_err", "flying", "flying">>
    /\ cfg.hedge_after > 0

\* C30: with hedge_after = 0 and a reserve, as long as the reserve is not
\* launched no time has passed and none can pass: the call neither waits nor
\* times out nor gives up before the hedge, and it ends without the reserve
\* only by an initial attempt winning.  The initial wave is launched in a step
\* of its own, before the reserve.
C30_ZeroHedgeLaunchesAtStart ==
    (cfg.hedge_after = 0 /\ InitialLen < PrefixLen /\ pc # "Idle") =>
        /\ Launched # 1..PrefixLen =>
              /\ elapsed = 0
              /\ Launched = 1..InitialLen
              /\ pc = "Racing" =>
                    /\ ENABLED HedgeFire
                    /\ ~ENABLED Tick /\ ~ENABLED OverallTimeout /\ ~ENABLED Exhaust
              /\ pc # "Racing" => inner.kind = "Ok" /\ inner.value.by <= InitialLen
        /\ \A i \in Launched : i > InitialLen => \A j \in 1..InitialLen : j \in Launched

\* hedge_after = 0 and overall_timeout = 0: two reserve providers are in
\* flight at time 0, after the initial provider was seen to fail.
C30_Witness ==
    /\ pc = "Racing"
    /\ cfg.hedge_after = 0
    /\ cfg.overall_timeout = 0
    /\ elapsed = 0
    /\ InitialLen = 1
    /\ att = <<"took_err", "flying", "flying">>

\* ================================================= the call terminates
\* The runtime polls a task that was woken and fires the timers that are due:
\* every step of the call that stays enabled is taken, and time passes while
\* the call is suspended.  Providers are under no obligation to answer.
LiveProviderLists == { p \in ProviderLists : Len(p) <= 2 }

InitLive ==
    /\ \E p \in LiveProviderLists, c \in HedgeConfig : New(p, c)
    /\ NoCallYet

Fairness ==
    /\ WF_vars(\E i \in DOMAIN att, slot \in Slots : ObserveOk(i, slot))
    /\ WF_vars(\E i \in DOMAIN att : ObserveErr(i))
    /\ WF_vars(HedgeFire)
    /\ WF_vars(Exhaust)
    /\ WF_vars(OverallTimeout)
    /\ WF_vars(Commit)
    /\ WF_vars(Tick)

SpecLive == InitLive /\ [][Next]_vars /\ Fairness

\* C31: a call with a non-empty prefix goes from Idle to Racing, from Racing
\* to exactly one of Won, Exhausted and TimedOut, which it reaches in the end,
\* and from there to Returned with the outcome of that state: Ok, AllFailed or
\* Timeout.  It never goes back.
C31_CallReachesOneTerminalState ==
    /\ [][PrefixLen >= 1 =>
            \/ pc' = pc
            \/ pc = "Idle" /\ pc' = "Racing"
            \/ pc = "Racing" /\ pc' \in Terminal
            \/ pc \in Terminal /\ pc' = "Returned"]_vars
    /\ [](pc = "Won" => inner.kind = "Ok")
    /\ [](pc = "Exhausted" => inner.kind = "AllFailed")
    /\ [](pc = "TimedOut" => inner.kind = "Elapsed")
    /\ []((pc = "Returned" /\ PrefixLen >= 1) =>
            result.kind = (CASE inner.kind = "Ok"        -> "Ok"
                             [] inner.kind = "AllFailed" -> "AllFailed"
                             [] inner.kind = "Elapsed"   -> "Timeout"
                             [] OTHER                    -> "None"))
    /\ (pc = "Racing") ~> (pc \in Terminal)
    /\ (pc \in Terminal) ~> (pc = "Returned")

\* A call that returned Timeout: its only provider never answered.
C31_Witness ==
    /\ pc = "Returned"
    /\ result.kind = "Timeout"
    /\ cfg.overall_timeout = MaxDuration
    /\ PrefixLen = 1
    /\ att[1] = "dropped"

\* ==================================================== what a call leaves
\* C32: after a call that returned Ok the registry differs from before in the
\* winner's entry only, by one win and the latency of the call: no errors
\* counter has moved, also not that of a provider seen to fail before the win.
C32_WinIsTheOnlyChange ==
    (pc = "Returned" /\ result.kind = "Ok") =>
        \A id \in DOMAIN stats :
            /\ stats[id].errors = 0
            /\ stats[id].wins = (IF id = result.id THEN 1 ELSE 0)
            /\ stats[id].total_latency_ms = (IF id = result.id THEN elapsed ELSE 0)

\* Two providers were seen to fail, then a third one won, after some time.
C32_Witness ==
    /\ pc = "Returned"
    /\ result.kind = "Ok"
    /\ Len(failures) = 2
    /\ \A k \in 1..Len(failures) : failures[k].id # result.id
    /\ elapsed > 0

\* What C33 concludes for a call with a reserve: no reserve provider is
\* contacted, the call never ends in AllFailed, once every attempt of the
\* initial wave has failed it stays suspended until the deadline, and the
\* Timeout it returns at overall_timeout charges every reserve provider once
\* per place it holds in the prefix.
ReserveNeverUsed ==
    /\ \A i \in reserve : att[i] = "idle"
    /\ pc # "Exhausted"
    /\ inner.kind # "AllFailed"
    /\ pc = "Returned" => result.kind \in {"Ok", "Timeout"}
    /\ (pc = "Racing" /\ \A i \in initial_wave : att[i] = "took_err") =>
          /\ InnerPending
          /\ ~ENABLED Exhaust
          /\ elapsed < cfg.overall_timeout => ENABLED Tick
    /\ (pc = "Returned" /\ \A i \in initial_wave : att[i] = "took_err") =>
          result.kind = "Timeout"
    /\ (pc = "Returned" /\ result.kind = "Timeout") =>
          /\ elapsed = cfg.overall_timeout
          /\ \A i \in reserve :
                stats[providers[i]].errors = InPrefix(providers[i], PrefixLen)

\* C33 as stated: the above whenever the reserve is non-empty and
\* hedge_after >= overall_timeout.  Refuted at hedge_after = overall_timeout:
\* both timers are due in the same tick, time::timeout polls hedging_logic
\* first, and the hedge branch launches the reserve before the deadline is
\* looked at.
C33_ReserveUnreachableAtOrAfterDeadline ==
    (pc # "Idle" /\ reserve # {} /\ cfg.hedge_after >= cfg.overall_timeout) =>
        ReserveNeverUsed

\* C33, amended: if the reserve is non-empty and hedge_after > overall_timeout,
\* no reserve provider is ever contacted and the call never returns AllFailed:
\* when every initial-wave attempt has failed the call still waits and returns
\* Timeout at overall_timeout, and the never-contacted reserve providers each
\* receive an error increment.
C33_ReserveUnreachableAfterDeadline ==
    (pc # "Idle" /\ reserve # {} /\ cfg.hedge_after > cfg.overall_timeout) =>
        ReserveNeverUsed

\* The only initial attempt failed at once, the call waited a tick and timed
\* out; two reserve providers, never contacted, are charged.
C33_Witness ==
    /\ pc = "Returned"
    /\ result.kind = "Timeout"
    /\ cfg.hedge_after > cfg.overall_timeout
    /\ cfg.overall_timeout = 1
    /\ Cardinality(reserve) = 2
    /\ \A i \in initial_wave : att[i] = "took_err"
    /\ \A i \in reserve : att[i] = "idle" /\ stats[providers[i]].errors >= 1

\* Positions behind the selected prefix, and those of them whose id holds no
\* place within the prefix.
BehindPrefix == (PrefixLen + 1)..Len(providers)
OutsidePrefix == { i \in BehindPrefix : InPrefix(providers[i], PrefixLen) = 0 }

\* The wins and errors of the providers at the positions `at` stay as they are.
CountersKept(idx) ==
    \A i \in idx : /\ stats'[providers[i]].wins = stats[providers[i]].wins
                  /\ stats'[providers[i]].errors = stats[providers[i]].errors

\* C34 as stated: no step of a call changes wins or errors of a provider at an
\* index >= min(max_providers, |providers|), nor the provider list or the
\* HedgeConfig.  Refuted where an id is configured twice, once within the
\* prefix and once behind it: the registry is keyed by id.
C34_NothingBehindThePrefixChanges ==
    [][CountersKept(BehindPrefix) /\ providers' = providers /\ cfg' = cfg]_vars

\* C34, amended: no call ever changes the wins or errors counter of a provider
\* behind its selected prefix whose id does not also occur within the prefix,
\* and no call changes the provider list or the HedgeConfig of the client.
C34_NothingOutsideThePrefixChanges ==
    [][CountersKept(OutsidePrefix) /\ providers' = providers /\ cfg' = cfg]_vars

\* A call over a prefix of two, one failed and one never answered, timed out;
\* the third provider, of another id, is as it was built.
C34_Witness ==
    /\ pc = "Returned"
    /\ result.kind = "Timeout"
    /\ PrefixLen = 2
    /\ OutsidePrefix = {3}
    /\ Taken("took_err") # {}
    /\ \A i \in 1..PrefixLen : stats[providers[i]].errors >= 1
    /\ Fresh(providers[3])

\* ============================================================ the dashboard
\* The TUI of src/src/main.rs: run_app's loop over one App.  Each turn of the
\* loop drains the channel, draws a frame, spawns a call if a batch is
\* running, and reads at most one key.  The calls run as tasks of their own
\* and finish at any moment; each builds a client of its own and reports with
\* one RpcFinished event.
\*
\* The numbers of app.rs are scaled down: batch_count moves in steps of
\* BatchStep between BatchStep and BatchStep * BatchSteps, a latency history
\* keeps HistoryCap entries and call_timestamps keeps TimestampCap.  A call
\* ends before more than MaxInFlight of them are running.  Latencies are in
\* tenths of a millisecond; Instant::now() of a result is stood for by the
\* ordinal of the result.  Left out: method, target_account, last_provider,
\* last_latency_ms, stats_snapshot and session_start, which nothing modelled
\* here reads.
None == <<>>
Some(x) == <<x>>

\* env::build_client_from_env: one ProviderConfig per variable that is set, in
\* a fixed order and with ids of their own, at least one.
EnvProviderLists == { [i \in 1..n |-> i] : n \in 1..EnvProviders }

\* The HedgeConfig of build_client_from_env, durations in milliseconds.
EnvConfig(provider_cfgs) ==
    [ initial_providers |-> 1,
      hedge_after       |-> 50,
      max_providers     |-> Len(provider_cfgs),
      overall_timeout   |-> 2000 ]

batch_count_min == BatchStep
batch_count_max == BatchStep * BatchSteps

\* App::new
AppNew(providers_cfg) ==
    [ providers       |-> providers_cfg,
      selected_idx    |-> 0,
      mode            |-> "Hedged",
      last_message    |-> "Ready",
      batch_mode      |-> FALSE,
      batch_count     |-> batch_count_min,
      batch_current   |-> 0,
      provider_count  |-> Len(providers_cfg),
      total_calls     |-> 0,
      total_successes |-> 0,
      total_errors    |-> 0,
      latency_history |-> [id \in { providers_cfg[i] : i \in 1..Len(providers_cfg) } |-> <<>>],
      call_timestamps |-> <<>> ]

next_provider(a) ==
    IF Len(a.providers) # 0
    THEN [a EXCEPT !.selected_idx = (@ + 1) % Len(a.providers)]
    ELSE a

prev_provider(a) ==
    IF Len(a.providers) # 0
    THEN [a EXCEPT !.selected_idx = IF @ = 0 THEN Len(a.providers) - 1 ELSE @ - 1]
    ELSE a

increase_provider_count(a) ==
    IF a.provider_count < Len(a.providers)
    THEN [a EXCEPT !.provider_count = @ + 1]
    ELSE a

\* Mutant: the count is lowered without looking at it (saturating at 0).
decrease_provider_count_unguarded(a) ==
    [a EXCEPT !.provider_count = IF @ >= 1 THEN @ - 1 ELSE 0]

decrease_provider_count(a) ==
    IF a.provider_count > 1
    THEN [a EXCEPT !.provider_count = @ - 1]
    ELSE a

toggle_mode(a) ==
    [a EXCEPT !.mode = IF @ = "Hedged" THEN "SingleProvider" ELSE "Hedged"]

toggle_batch_mode(a) ==
    IF ~a.batch_mode
    THEN [a EXCEPT !.batch_mode = TRUE, !.batch_current = 0, !.last_message = "BatchOn"]
    ELSE [a EXCEPT !.batch_mode = FALSE, !.last_message = "BatchOff"]

increase_batch_count(a) ==
    [a EXCEPT !.batch_count = Min(@ + BatchStep, batch_count_max)]

\* usize::saturating_sub
saturating_sub(x, y) == IF x >= y THEN x - y ELSE 0

decrease_batch_count(a) ==
    [a EXCEPT !.batch_count = Max(saturating_sub(@, BatchStep), batch_count_min)]

\* `latency_ms as u64`: the fraction is cut off.
as_u64(tenths) == tenths \div 10

\* Mutant: a full queue drops the entry just pushed.
push_capped_drops_newest(q, x, cap) ==
    IF Len(q) + 1 > cap THEN q ELSE Append(q, x)

\* push_back, then pop_front once the length is over the cap.
push_capped(q, x, cap) ==
    IF Len(q) + 1 > cap THEN Tail(Append(q, x)) ELSE Append(q, x)

\* latency_history.entry(id).or_insert_with(..).push_back(..), capped
push_latency(h, id, x) ==
    [k \in DOMAIN h \cup {id} |->
        IF k = id THEN push_capped(IF id \in DOMAIN h THEN h[id] ELSE <<>>, x, HistoryCap)
        ELSE h[k]]

\* App::set_last_result up to its last_message: the totals, the latency
\* history of the provider and call_timestamps.
record_result(a, ev) ==
    LET counted == [a EXCEPT !.total_calls = @ + 1,
                             !.total_successes = IF ev.ok THEN @ + 1 ELSE @,
                             !.total_errors = IF ev.ok THEN @ ELSE @ + 1]
        logged  == IF ev.provider # None
                   THEN [counted EXCEPT !.latency_history =
                            push_latency(@, ev.provider[1], as_u64(ev.latency_ms))]
                   ELSE counted
    IN  [logged EXCEPT !.call_timestamps =
                           push_capped(@, counted.total_calls, TimestampCap),
                       !.last_message = "Result"]

\* Mutant: the batch is over only once batch_current is beyond batch_count.
set_last_result_one_more(a, ev) ==
    LET b == record_result(a, ev)
    IN  IF b.batch_mode
        THEN IF b.batch_current + 1 > b.batch_count
             THEN [b EXCEPT !.batch_current = @ + 1, !.batch_mode = FALSE,
                            !.last_message = "BatchComplete"]
             ELSE [b EXCEPT !.batch_current = @ + 1]
        ELSE b

\* App::set_last_result
set_last_result(a, ev) ==
    LET b == record_result(a, ev)
    IN  IF b.batch_mode
        THEN IF b.batch_current + 1 >= b.batch_count
             THEN [b EXCEPT !.batch_current = @ + 1, !.batch_mode = FALSE,
                            !.last_message = "BatchComplete"]
             ELSE [b EXCEPT !.batch_current = @ + 1]
        ELSE b

should_run_call(a) == a.batch_mode /\ a.batch_current < a.batch_count

\* draw_batch_progress: (batch_current as f64 / batch_count as f64 * 100.0) as
\* u16, a cast that cuts the fraction off and saturates.  (The f64 product of
\* an exact percentage can fall just short of it; it never exceeds it.)
progress(a) ==
    IF a.batch_count > 0
    THEN Min((a.batch_current * 100) \div a.batch_count, 65535)
    ELSE 0

\* rpc.rs create_hedged_client: the first provider_count providers and a
\* HedgeConfig with max_providers = provider_count.
create_hedged_client(ps, provider_count) ==
    [ providers |-> SubSeq(ps, 1, Min(provider_count, Len(ps))),
      cfg       |-> [ initial_providers |-> 1,
                      hedge_after       |-> 50,
                      max_providers     |-> provider_count,
                      overall_timeout   |-> 2000 ] ]

\* The guards of hedged_call on a client `c`.
NoProvidersOf(c) ==
    Len(c.providers) = 0 \/ Min(c.cfg.max_providers, Len(c.providers)) = 0

\* What a hedged call on `c` reports: the winner and Ok, or no provider and
\* the error.
HedgedOutcomes(c) ==
    IF NoProvidersOf(c)
    THEN { [provider |-> None, ok |-> FALSE, message |-> "NoProviders"] }
    ELSE { [provider |-> Some(c.providers[i]), ok |-> TRUE, message |-> "Ok"] :
                i \in 1..Min(c.cfg.max_providers, Len(c.providers)) }
         \cup { [provider |-> None, ok |-> FALSE, message |-> "Failed"] }

\* What a call on providers.get(selected_idx) alone reports.
SingleOutcomes(ps, selected_idx) ==
    IF selected_idx < Len(ps)
    THEN { [provider |-> Some(ps[selected_idx + 1]), ok |-> o,
            message |-> IF o THEN "Ok" ELSE "ClientError"] : o \in BOOLEAN }
    ELSE { [provider |-> None, ok |-> FALSE, message |-> "NoProviderSelected"] }

\* The task of spawn_rpc_call: what it captured of the App.  `origin` is a
\* ghost: "batch" for a call of the batch loop since batch mode last went on,
\* "earlier" for one of a batch before, "key" for one asked for by a key.
Task(a, origin) ==
    [ origin         |-> origin,
      mode           |-> a.mode,
      selected_idx   |-> a.selected_idx,
      provider_count |-> a.provider_count ]

Outcomes(task, ps) ==
    IF task.mode = "Hedged"
    THEN HedgedOutcomes(create_hedged_client(ps, task.provider_count))
    ELSE SingleOutcomes(ps, task.selected_idx)

\* elapsed_ms of a task, in tenths of a millisecond.
Latencies == {5, 15}

\* Ghost: a new batch begins, the calls of the one before are "earlier".
Earlier(task) == IF task.origin = "batch" THEN [task EXCEPT !.origin = "earlier"] ELSE task
Retag(b) ==
    [ u \in { Earlier(task) : task \in BagToSet(b) } |->
        CopiesIn(u, b)
        + (IF u.origin = "earlier" THEN CopiesIn([u EXCEPT !.origin = "batch"], b) ELSE 0) ]

\* tokio::spawn in spawn_rpc_call
Spawned(b, task) == b (+) SetToBag({task})

\* ------------------------------------------------------ run_app: the loop
\* while let Ok(ev) = rx.try_recv(): one event is received and recorded.
Recv ==
    /\ at = "recv"
    /\ rx # <<>>
    /\ app' = set_last_result(app, Head(rx))
    /\ rx' = Tail(rx)
    /\ UNCHANGED <<tasks, at, gauge, keys, hands_off, batch_spawned>>
    /\ UNCHANGED library

\* try_recv finds the channel empty.
RecvDone ==
    /\ at = "recv"
    /\ rx = <<>>
    /\ at' = "draw"
    /\ UNCHANGED <<app, rx, tasks, gauge, keys, hands_off, batch_spawned>>
    /\ UNCHANGED library

\* terminal.draw: the gauge is drawn only in batch mode.
Draw ==
    /\ at = "draw"
    /\ gauge' = IF app.batch_mode THEN Some(progress(app)) ELSE None
    /\ at' = "spawn"
    /\ UNCHANGED <<app, rx, tasks, keys, hands_off, batch_spawned>>
    /\ UNCHANGED library

\* if app.should_run_call() { spawn_rpc_call(..); sleep(50ms) }
BatchSpawn ==
    /\ at = "spawn"
    /\ should_run_call(app)
    /\ BagCardinality(tasks) < MaxInFlight
    /\ tasks' = Spawned(tasks, Task(app, "batch"))
    /\ batch_spawned' = batch_spawned + 1
    /\ at' = "poll"
    /\ UNCHANGED <<app, rx, gauge, keys, hands_off>>
    /\ UNCHANGED library

BatchIdle ==
    /\ at = "spawn"
    /\ ~should_run_call(app)
    /\ at' = "poll"
    /\ UNCHANGED <<app, rx, tasks, gauge, keys, hands_off, batch_spawned>>
    /\ UNCHANGED library

\* crossterm::event::poll(50ms) returns false.
NoKey ==
    /\ at = "poll"
    /\ at' = "recv"
    /\ UNCHANGED <<app, rx, tasks, gauge, keys, hands_off, batch_spawned>>
    /\ UNCHANGED library

\* A key press is read.
Press(k) ==
    /\ at = "poll"
    /\ keys > 0
    /\ keys' = keys - 1
    /\ hands_off' = (k = "b" /\ ~app.batch_mode)
    /\ UNCHANGED <<rx, gauge>>
    /\ UNCHANGED library

KeyUp ==
    /\ Press("Up")
    /\ app' = prev_provider(app)
    /\ at' = "recv"
    /\ UNCHANGED <<tasks, batch_spawned>>

KeyDown ==
    /\ Press("Down")
    /\ app' = next_provider(app)
    /\ at' = "recv"
    /\ UNCHANGED <<tasks, batch_spawned>>

KeyTab ==
    /\ Press("Tab")
    /\ app' = toggle_mode(app)
    /\ at' = "recv"
    /\ UNCHANGED <<tasks, batch_spawned>>

KeyR ==
    /\ Press("r")
    /\ BagCardinality(tasks) < MaxInFlight
    /\ tasks' = Spawned(tasks, Task(app, "key"))
    /\ at' = "recv"
    /\ UNCHANGED <<app, batch_spawned>>

KeySpace ==
    /\ Press(" ")
    /\ BagCardinality(tasks) < MaxInFlight
    /\ app' = [app EXCEPT !.mode = "SingleProvider"]
    /\ tasks' = Spawned(tasks, Task(app', "key"))
    /\ at' = "recv"
    /\ UNCHANGED batch_spawned

KeyB ==
    /\ Press("b")
    /\ app' = toggle_batch_mode(app)
    /\ IF app'.batch_mode
       THEN tasks' = Retag(tasks) /\ batch_spawned' = 0
       ELSE UNCHANGED <<tasks, batch_spawned>>
    /\ at' = "recv"

KeyPlus ==
    /\ Press("+")
    /\ app' = increase_provider_count(app)
    /\ at' = "recv"
    /\ UNCHANGED <<tasks, batch_spawned>>

KeyMinus ==
    /\ Press("-")
    /\ app' = decrease_provider_count(app)
    /\ at' = "recv"
    /\ UNCHANGED <<tasks, batch_spawned>>

KeyLeftBracket ==
    /\ Press("[")
    /\ app' = decrease_batch_count(app)
    /\ at' = "recv"
    /\ UNCHANGED <<tasks, batch_spawned>>

KeyRightBracket ==
    /\ Press("]")
    /\ app' = increase_batch_count(app)
    /\ at' = "recv"
    /\ UNCHANGED <<tasks, batch_spawned>>

KeyS ==
    /\ Press("s")
    /\ app' = [app EXCEPT !.last_message = "StatsReset"]
    /\ at' = "recv"
    /\ UNCHANGED <<tasks, batch_spawned>>

\* 'q': run_app returns; the receiver and, with the runtime, the tasks go.
KeyQ ==
    /\ Press("q")
    /\ at' = "quit"
    /\ tasks' = EmptyBag
    /\ UNCHANGED <<app, batch_spawned>>

\* A task reaches tx.send(RpcFinished { .. }).
Finish(task, out, latency_ms) ==
    /\ BagIn(task, tasks)
    /\ out \in Outcomes(task, app.providers)
    /\ tasks' = tasks (-) SetToBag({task})
    /\ rx' = Append(rx, [provider |-> out.provider, latency_ms |-> latency_ms,
                         ok |-> out.ok, message |-> out.message])
    /\ UNCHANGED <<app, at, gauge, keys, hands_off, batch_spawned>>
    /\ UNCHANGED library

\* main: the client and the App are built from the environment and run_app
\* enters its loop; the user will press `presses` keys.
Started(lists, presses) ==
    /\ \E p \in lists :
          /\ New(p, EnvConfig(p))
          /\ app = AppNew(p)
    /\ NoCall
    /\ rx = <<>>
    /\ tasks = EmptyBag
    /\ at = "recv"
    /\ gauge = None
    /\ keys = presses
    /\ hands_off = FALSE
    /\ batch_spawned = 0

\* Tasks finish, having taken one of `latencies`.
Finishes(latencies) ==
    \E task \in BagToSet(tasks), latency_ms \in latencies :
        \E out \in Outcomes(task, app.providers) : Finish(task, out, latency_ms)

\* The dashboard under every key it reads, while the calls it spawns are
\* still running.
InitKeys == Started(EnvProviderLists, KeysApp)
NextKeys ==
    \/ RecvDone
    \/ Draw
    \/ BatchSpawn
    \/ BatchIdle
    \/ NoKey
    \/ KeyUp
    \/ KeyDown
    \/ KeyTab
    \/ KeyR
    \/ KeySpace
    \/ KeyB
    \/ KeyPlus
    \/ KeyMinus
    \/ KeyLeftBracket
    \/ KeyRightBracket
    \/ KeyS
    \/ KeyQ

SpecKeys == InitKeys /\ [][NextKeys]_vars

\* The dashboard of one provider under the keys of batch mode: b, [ and ],
\* and r.
InitBatch == Started({<<1>>}, KeysBatch)
NextBatch ==
    \/ Recv
    \/ RecvDone
    \/ Draw
    \/ BatchSpawn
    \/ BatchIdle
    \/ NoKey
    \/ KeyR
    \/ KeyB
    \/ KeyLeftBracket
    \/ KeyRightBracket
    \/ Finishes({15})

SpecBatch == InitBatch /\ [][NextBatch]_vars

\* The dashboard under the keys that ask for one call, r and space, and Tab.
InitResults == Started(EnvProviderLists, KeysResults)
NextResults ==
    \/ Recv
    \/ RecvDone
    \/ Draw
    \/ BatchIdle
    \/ NoKey
    \/ KeyR
    \/ KeySpace
    \/ KeyTab
    \/ Finishes(Latencies)

SpecResults == InitResults /\ [][NextResults]_vars

\* ---------------------------------------------------- claims: batch mode
\* C35: whenever batch mode is on, batch_current <= batch_count, so the
\* percentage handed to the gauge never exceeds 100, whatever keys (b, [, ])
\* were pressed and whatever calls completed; lowering batch_count during a
\* running batch does not leave batch mode on with batch_current above it.
\* Refuted: decrease_batch_count looks at neither batch_mode nor
\* batch_current.
C35_BatchProgressWithinCount ==
    /\ app.batch_mode => /\ app.batch_current <= app.batch_count
                         /\ progress(app) <= 100
    /\ gauge # None => gauge[1] <= 100

\* Calls in flight when batch mode last went on or spawned by its loop since.
BatchCalls == { task \in BagToSet(tasks) : task.origin = "batch" }

\* C36: one batch run, from batch mode being switched on until it switches
\* itself off, spawns at most batch_count calls from the batch loop, and when
\* 'Batch complete' is reported none of them is still in flight, also when a
\* call takes longer than one turn of the loop.  Stated for a run no key
\* disturbed.  Refuted: the loop spawns one call per turn until batch_count
\* results have been received, not until batch_count calls have been spawned.
C36_BatchSpawnsBatchCount ==
    hands_off =>
        /\ batch_spawned <= app.batch_count
        /\ app.last_message = "BatchComplete" => BatchCalls = {}

\* run_app never blocks for good in a turn (the draw returns, the sleep and
\* the key poll time out), and every task spawned reaches its send.
Turn == Recv \/ RecvDone \/ Draw \/ BatchSpawn \/ BatchIdle \/ NoKey
FairnessBatch == WF_vars(Turn) /\ WF_vars(Finishes({15}))

\* The dashboard of one provider under the keys that set a batch up, ] and b.
InitBatchLive == Started({<<1>>}, KeysLive)
NextBatchLive ==
    \/ Recv
    \/ RecvDone
    \/ Draw
    \/ BatchSpawn
    \/ BatchIdle
    \/ NoKey
    \/ KeyB
    \/ KeyRightBracket
    \/ Finishes({15})

SpecBatchLive == InitBatchLive /\ [][NextBatchLive]_vars /\ FairnessBatch

\* C37: once batch mode has been switched on and no further key is pressed,
\* batch mode eventually switches itself off, batch_current having reached
\* batch_count, provided every call spawned delivers its RpcFinished.
C37_BatchSwitchesItselfOff ==
    (app.batch_mode /\ hands_off /\ keys = 0)
        ~> (~app.batch_mode /\ app.batch_current >= app.batch_count
            /\ app.last_message = "BatchComplete")

\* A batch switched on by the last key has completed, its calls slower than
\* the loop: more of them were spawned than it counted.
C37_Witness ==
    /\ hands_off
    /\ keys = 0
    /\ ~app.batch_mode
    /\ app.last_message = "BatchComplete"
    /\ app.batch_current = app.batch_count
    /\ batch_spawned > app.batch_count

\* The client a hedged task builds for itself.
ClientOf(task) == create_hedged_client(app.providers, task.provider_count)

\* C38: for an App built from a non-empty provider list and any sequence of
\* key presses, 1 <= provider_count <= |providers|, selected_idx < |providers|
\* and batch_count stays between its floor and its ceiling; so a hedged call
\* spawned from the dashboard never has max_providers = 0 and never fails
\* with NoProviders.
C38_DashboardSettingsInRange ==
    Len(app.providers) >= 1 =>
        /\ 1 <= app.provider_count
        /\ app.provider_count <= Len(app.providers)
        /\ 0 <= app.selected_idx
        /\ app.selected_idx < Len(app.providers)
        /\ batch_count_min <= app.batch_count
        /\ app.batch_count <= batch_count_max
        /\ \A task \in BagToSet(tasks) :
              task.mode = "Hedged" =>
                  /\ ClientOf(task).cfg.max_providers # 0
                  /\ ~NoProvidersOf(ClientOf(task))
                  /\ \A out \in Outcomes(task, app.providers) : out.message # "NoProviders"
        /\ \A k \in 1..Len(rx) : rx[k].message # "NoProviders"

\* Of two providers one was taken out of the race with '-', and a hedged call
\* asked for with 'r' is in flight.
C38_Witness ==
    /\ keys = 0
    /\ Len(app.providers) = 2
    /\ app.provider_count = 1
    /\ \E task \in BagToSet(tasks) :
          task.mode = "Hedged" /\ task.origin = "key" /\ task.provider_count = 1

\* The last n entries of q.
LastOf(q, n) == SubSeq(q, Len(q) - Min(Len(q), n) + 1, Len(q))

\* C39: after any sequence of RpcFinished events, total_calls =
\* total_successes + total_errors, each provider's latency history holds at
\* most HistoryCap entries, the most recent ones, the oldest dropped first,
\* and call_timestamps holds at most TimestampCap entries.
C39_TotalsAndWindows ==
    /\ [](/\ app.total_calls = app.total_successes + app.total_errors
          /\ \A id \in DOMAIN app.latency_history :
                Len(app.latency_history[id]) <= HistoryCap
          /\ Len(app.call_timestamps) <= TimestampCap)
    /\ [][ \/ /\ app'.total_calls = app.total_calls
              /\ app'.latency_history = app.latency_history
              /\ app'.call_timestamps = app.call_timestamps
           \/ /\ rx # <<>>
              /\ rx' = Tail(rx)
              /\ app'.total_calls = app.total_calls + 1
              /\ app'.total_successes = app.total_successes + (IF Head(rx).ok THEN 1 ELSE 0)
              /\ DOMAIN app'.latency_history = DOMAIN app.latency_history
              /\ \A id \in DOMAIN app.latency_history :
                    app'.latency_history[id] =
                        IF Head(rx).provider = Some(id)
                        THEN LastOf(Append(app.latency_history[id],
                                           Head(rx).latency_ms \div 10), HistoryCap)
                        ELSE app.latency_history[id]
              /\ app'.call_timestamps =
                    LastOf(Append(app.call_timestamps, app'.total_calls), TimestampCap)
         ]_vars

\* Four results, three of them of the one provider: its history holds the
\* last two, which differ, and call_timestamps the last three.
C39_Witness ==
    /\ Len(app.providers) = 1
    /\ app.total_calls = 4
    /\ app.total_successes = 3
    /\ app.total_errors = 1
    /\ app.latency_history[1] = <<0, 1>>
    /\ app.call_timestamps = <<2, 3, 4>>

====
